---- MODULE Spec2Model ----
(***************************************************************************)
(* A model of the Teleprompter SDK (src/src/index.ts): the queue consumer  *)
(* HandleUpdates that keeps the PROMPTS key-value namespace in step with   *)
(* the registry, the KV reader, the HTTP registry client and the older     *)
(* durable-object client (src/unnamed/part_001).                           *)
(***************************************************************************)
EXTENDS Integers, Sequences, FiniteSets, TLC

(* ------------------------------ bounds --------------------------------- *)

\* Highest version number a queued notification carries.
MaxVersion == 2
\* Longest message batch handed to HandleUpdates.
MaxBatch == 2
\* Number of batches delivered to HandleUpdates in one behaviour.
MaxDeliveries == 2
\* Most versions the registry comes to hold, over all ids.
MaxHist == 3
\* Most change notifications published in one behaviour.
MaxPublished == 3

Ids == {"a", "b"}
Bodies == {"p", "q"}
\* Errors the key-value store can reject an operation with.
StoreErrors == {"kv-unavailable", "kv-limit"}

(* --------------------------- data model -------------------------------- *)

\* interface Prompt extends PromptInput { version: number }
Prompts == [id : Ids, prompt : Bodies, version : 1..MaxVersion]

\* DeleteMessage(id): { id, type: 'prompt-delete' }
DeleteMessage(id) == [id |-> id, type |-> "prompt-delete"]

\* Mutant of UpdateMessage: the version is left out of the message.
UpdateMessageNoVersion(prompt) ==
  [id |-> prompt.id, prompt |-> prompt.prompt, type |-> "prompt-update"]

\* UpdateMessage(prompt): { ...prompt, type: 'prompt-update' }: every
\* property of prompt is copied, then type is set.
UpdateMessage(prompt) ==
  [k \in DOMAIN prompt \cup {"type"} |->
     IF k = "type" THEN "prompt-update" ELSE prompt[k]]

\* A message body whose tag is none of the two the switch names.
UntaggedMessage(id) == [id |-> id, type |-> "prompt-other"]

Messages ==
  {UpdateMessage(p) : p \in Prompts}
    \cup {DeleteMessage(i) : i \in Ids}
    \cup {UntaggedMessage(i) : i \in Ids}

RECURSIVE SeqsUpTo(_, _)
SeqsUpTo(S, n) ==
  IF n = 0 THEN {<<>>}
  ELSE LET shorter == SeqsUpTo(S, n - 1)
       IN shorter \cup {Append(s, x) : s \in {t \in shorter : Len(t) = n - 1}, x \in S}

\* batch.messages: every sequence of at most MaxBatch message bodies.
Batches == SeqsUpTo(Messages, MaxBatch)

(* ------------------------------ JSON ----------------------------------- *)

\* The order in which the objects of this program enumerate their keys.
FieldOrder == <<"id", "prompt", "version", "type">>

\* JSON.stringify(obj): the members of obj in key order, each as
\* <<key, kind, text>>; a number is written in decimal, a string as is.
JSONStringify(obj) ==
  LET keys == SelectSeq(FieldOrder, LAMBDA f : f \in DOMAIN obj)
  IN [i \in 1..Len(keys) |->
        IF keys[i] = "version"
        THEN <<keys[i], "num", ToString(obj[keys[i]])>>
        ELSE <<keys[i], "str", obj[keys[i]]>>]

\* The number a decimal text denotes.
ParseNumber(text) == CHOOSE n \in 0..(MaxVersion + MaxHist + 1) : ToString(n) = text

\* JSON.parse(text): the object with the members of text.
JSONParse(text) ==
  [k \in {text[i][1] : i \in 1..Len(text)} |->
     LET m == text[CHOOSE i \in 1..Len(text) : text[i][1] = k]
     IN IF m[2] = "num" THEN ParseNumber(m[3]) ELSE m[3]]

(* ------------------------ key-value namespace -------------------------- *)

\* KVNamespace.put(key, value)
KVPut(s, key, value) ==
  [k \in DOMAIN s \cup {key} |-> IF k = key THEN value ELSE s[k]]

\* KVNamespace.delete(key)
KVDelete(s, key) == [k \in DOMAIN s \ {key} |-> s[k]]

EmptyStore == [k \in {} |-> <<>>]

(* ------------------------------ state ---------------------------------- *)

VARIABLES
  store,      \* env.PROMPTS: key -> stored text, for the keys present
  batch,      \* batch.messages of the running HandleUpdates call
  pos,        \* index of the message the for-loop is at
  relay,      \* "idle" | "running" | "awaiting" | "resolved" | "rejected"
  relayErr,   \* the error HandleUpdates rejected with ("none" otherwise)
  kvlog,      \* store operations issued by the running call, in issue order
  store0,     \* the store when the running call started
  delivered,  \* number of HandleUpdates calls so far
  redelivered, \* whether the running call got the batch of the call that resolved just before it
  queue,      \* change notifications published and not yet delivered
  published,  \* number of change notifications published so far
  http,       \* the HTTP client's fields: [baseUrl, binding]
  versions,   \* the registry: id -> bodies of versions 1, 2, ... of id
  current,    \* the registry: id -> whether id has a current record
  lastOp,     \* the client operation that completed last, with its outcome
  prevWrite,  \* the successful writePrompt, if any, that completed just before it
  rb,         \* the durable-object client's rollbackPrompt call in flight
  listing,    \* the KV.list call in flight: its keys and per-key fetches
  lastRead,   \* the call of the KV reader that completed last, with its outcome
  prevRead    \* the render that completed before it, where renders are compared

relayVars == <<store, batch, pos, relay, relayErr, kvlog, store0, delivered, redelivered>>

queueVars == <<queue, published>>

registryVars == <<http, versions, current, lastOp, prevWrite, rb>>

readerVars == <<listing, lastRead, prevRead>>

vars ==
  <<store, batch, pos, relay, relayErr, kvlog, store0, delivered, redelivered,
    queue, published, http, versions, current, lastOp, prevWrite, rb, listing,
    lastRead, prevRead>>

\* new Teleprompter.HTTP(urlOrBinding)
HTTPConstructor(urlOrBinding) ==
  IF urlOrBinding.kind = "string"
  THEN [baseUrl |-> urlOrBinding.value, binding |-> "undefined"]
  ELSE [baseUrl |-> "undefined", binding |-> urlOrBinding.value]

NoOp ==
  [sdk |-> "none", name |-> "none", id |-> "", body |-> "", version |-> 0,
   reqs |-> <<>>, outcome |-> "none", status |-> 0, error |-> <<>>,
   result |-> <<>>, pre |-> <<>>]

NoWrite == [st |-> "none", id |-> "", body |-> "", prior |-> 0]

\* What lastOp leaves in prevWrite when the next operation completes.
WriteOf(op) ==
  IF op.name = "writePrompt" /\ op.outcome = "ok"
  THEN [st |-> "written", id |-> op.id, body |-> op.body, prior |-> Len(op.pre)]
  ELSE NoWrite

NoRollback == [st |-> "none", id |-> "", version |-> 0, v |-> <<>>]

InitRelay ==
  /\ store = EmptyStore
  /\ batch = <<>>
  /\ pos = 1
  /\ relay = "idle"
  /\ relayErr = "none"
  /\ kvlog = <<>>
  /\ store0 = EmptyStore
  /\ delivered = 0
  /\ redelivered = FALSE
  /\ queue = <<>>
  /\ published = 0

\* No call of the KV reader has been made.
NoListing == [st |-> "none", keys |-> <<>>, got |-> <<>>, order |-> <<>>]

NoRead ==
  [name |-> "none", id |-> "", ctx |-> <<>>, seen |-> <<>>, outcome |-> "none",
   error |-> <<>>, result |-> <<>>, keys |-> <<>>, fetched |-> <<>>,
   order |-> <<>>]

InitReader ==
  /\ listing = NoListing
  /\ lastRead = NoRead
  /\ prevRead = NoRead

InitRegistryState ==
  /\ versions = [i \in Ids |-> <<>>]
  /\ current = [i \in Ids |-> FALSE]
  /\ lastOp = NoOp
  /\ prevWrite = NoWrite
  /\ rb = NoRollback

Init ==
  /\ InitRelay
  /\ InitReader
  /\ InitRegistryState
  /\ http = HTTPConstructor([kind |-> "string", value |-> "https://api.example.com"])

\* The arguments new Teleprompter.HTTP is called with: a base URL with a
\* path of its own, the empty string, a Fetcher binding, and undefined
\* passed as the binding.
ConstructorArgs ==
  {[kind |-> "string", value |-> "https://api.example.com/v1"],
   [kind |-> "string", value |-> ""],
   [kind |-> "object", value |-> "API_BINDING"],
   [kind |-> "object", value |-> "undefined"]}

\* The state after new Teleprompter.HTTP(urlOrBinding), for each argument.
InitClient ==
  /\ InitRelay
  /\ InitReader
  /\ InitRegistryState
  /\ http \in {HTTPConstructor(a) : a \in ConstructorArgs}

(* --------------------------- HandleUpdates ----------------------------- *)

\* Mutant of PutValue: the bare record is written, without the tag.
PutValueBare(body) ==
  JSONStringify([id |-> body.id, prompt |-> body.prompt, version |-> body.version])

\* The value written for an update message: JSON.stringify(message.body).
PutValue(body) == JSONStringify(body)

\* Mutant of StoreOpFor: the switch has no 'prompt-delete' case.
StoreOpForNoDelete(k, body) ==
  IF body.type = "prompt-update"
  THEN <<[msg |-> k, op |-> "put", key |-> body.id, value |-> PutValue(body),
          state |-> "pending", err |-> "none"]>>
  ELSE <<>>

\* Mutant of StoreOpFor: the switch has a default case that deletes the id.
StoreOpForDefaultDelete(k, body) ==
  IF body.type = "prompt-update"
  THEN <<[msg |-> k, op |-> "put", key |-> body.id, value |-> PutValue(body),
          state |-> "pending", err |-> "none"]>>
  ELSE <<[msg |-> k, op |-> "delete", key |-> body.id, value |-> <<>>,
          state |-> "pending", err |-> "none"]>>

\* Mutant of StoreOpFor: the key is the id of the first message of the batch.
StoreOpForFirstKey(k, body) ==
  IF body.type = "prompt-update"
  THEN <<[msg |-> k, op |-> "put", key |-> batch[1].id, value |-> PutValue(body),
          state |-> "pending", err |-> "none"]>>
  ELSE IF body.type = "prompt-delete"
  THEN <<[msg |-> k, op |-> "delete", key |-> batch[1].id, value |-> <<>>,
          state |-> "pending", err |-> "none"]>>
  ELSE <<>>

\* The store operation the switch issues for a message body, if any.
StoreOpFor(k, body) ==
  IF body.type = "prompt-update"
  THEN <<[msg |-> k, op |-> "put", key |-> body.id, value |-> PutValue(body),
          state |-> "pending", err |-> "none"]>>
  ELSE IF body.type = "prompt-delete"
  THEN <<[msg |-> k, op |-> "delete", key |-> body.id, value |-> <<>>,
          state |-> "pending", err |-> "none"]>>
  ELSE <<>>

\* HandleUpdates(batch, env, ctx) is entered with a batch.
HandleUpdatesEnter(b) ==
  /\ relay \in {"idle", "resolved", "rejected"}
  /\ batch' = b
  /\ pos' = 1
  /\ relay' = "running"
  /\ relayErr' = "none"
  /\ kvlog' = <<>>
  /\ store0' = store
  /\ redelivered' = (relay = "resolved" /\ b = batch)
  /\ UNCHANGED store

\* HandleUpdates is called with any batch.
HandleUpdates(b) ==
  /\ delivered < MaxDeliveries
  /\ HandleUpdatesEnter(b)
  /\ delivered' = delivered + 1
  /\ UNCHANGED <<queueVars, registryVars, readerVars>>

\* Mutant of HandleUpdatesLoop: the store operation is issued but not awaited.
HandleUpdatesLoopNoAwait ==
  /\ relay = "running"
  /\ pos <= Len(batch)
  /\ kvlog' = kvlog \o StoreOpFor(pos, batch[pos])
  /\ relay' = "running"
  /\ pos' = pos + 1
  /\ UNCHANGED <<store, batch, relayErr, store0, delivered, redelivered, queueVars, registryVars, readerVars>>

\* One iteration of the for-loop: the switch on message.body.type issues the
\* store operation and awaits it, or falls through for any other tag.
HandleUpdatesLoop ==
  /\ relay = "running"
  /\ pos <= Len(batch)
  /\ LET ops == StoreOpFor(pos, batch[pos])
     IN /\ kvlog' = kvlog \o ops
        /\ relay' = IF ops = <<>> THEN "running" ELSE "awaiting"
        /\ pos' = IF ops = <<>> THEN pos + 1 ELSE pos
  /\ UNCHANGED <<store, batch, relayErr, store0, delivered, redelivered, queueVars, registryVars, readerVars>>

\* Mutant of KVResolve: a put takes effect only when the store holds no
\* record of a higher version under the key.
KVResolveMaxVersion ==
  /\ relay = "awaiting"
  /\ \E i \in 1..Len(kvlog) :
       /\ kvlog[i].state = "pending"
       /\ store' = IF kvlog[i].op = "delete"
                   THEN KVDelete(store, kvlog[i].key)
                   ELSE IF /\ kvlog[i].key \in DOMAIN store
                           /\ JSONParse(store[kvlog[i].key]).version
                                > JSONParse(kvlog[i].value).version
                   THEN store
                   ELSE KVPut(store, kvlog[i].key, kvlog[i].value)
       /\ kvlog' = [kvlog EXCEPT ![i].state = "done"]
  /\ relay' = "running"
  /\ pos' = pos + 1
  /\ UNCHANGED <<batch, relayErr, store0, delivered, redelivered, queueVars, registryVars, readerVars>>

\* Mutant of KVResolve: a put of a key the store already holds removes the
\* entry instead of replacing it.
KVResolveExclusive ==
  /\ relay = "awaiting"
  /\ \E i \in 1..Len(kvlog) :
       /\ kvlog[i].state = "pending"
       /\ store' = IF kvlog[i].op = "put" /\ kvlog[i].key \notin DOMAIN store
                   THEN KVPut(store, kvlog[i].key, kvlog[i].value)
                   ELSE KVDelete(store, kvlog[i].key)
       /\ kvlog' = [kvlog EXCEPT ![i].state = "done"]
  /\ relay' = "running"
  /\ pos' = pos + 1
  /\ UNCHANGED <<batch, relayErr, store0, delivered, redelivered, queueVars, registryVars, readerVars>>

\* The awaited put or delete resolves: the store takes the effect and the
\* loop goes on to the next message.
KVResolve ==
  /\ relay = "awaiting"
  /\ \E i \in 1..Len(kvlog) :
       /\ kvlog[i].state = "pending"
       /\ store' = IF kvlog[i].op = "put"
                   THEN KVPut(store, kvlog[i].key, kvlog[i].value)
                   ELSE KVDelete(store, kvlog[i].key)
       /\ kvlog' = [kvlog EXCEPT ![i].state = "done"]
  /\ relay' = "running"
  /\ pos' = pos + 1
  /\ UNCHANGED <<batch, relayErr, store0, delivered, redelivered, queueVars, registryVars, readerVars>>

\* Mutant of KVReject: the error is caught and the loop continues.
KVRejectCaught(e) ==
  /\ relay = "awaiting"
  /\ \E i \in 1..Len(kvlog) :
       /\ kvlog[i].state = "pending"
       /\ kvlog' = [kvlog EXCEPT ![i].state = "failed", ![i].err = e]
  /\ relay' = "running"
  /\ pos' = pos + 1
  /\ UNCHANGED <<store, batch, relayErr, store0, delivered, redelivered, queueVars, registryVars, readerVars>>

\* The awaited put or delete rejects: nothing catches the error, so the
\* call rejects with it and the loop is abandoned.
KVReject(e) ==
  /\ relay = "awaiting"
  /\ \E i \in 1..Len(kvlog) :
       /\ kvlog[i].state = "pending"
       /\ kvlog' = [kvlog EXCEPT ![i].state = "failed", ![i].err = e]
  /\ relay' = "rejected"
  /\ relayErr' = e
  /\ UNCHANGED <<store, batch, pos, store0, delivered, redelivered, queueVars, registryVars, readerVars>>

\* Mutant of HandleUpdatesReturn: the function returns after its first message.
HandleUpdatesReturnEarly ==
  /\ relay = "running"
  /\ pos > 1 \/ pos > Len(batch)
  /\ relay' = "resolved"
  /\ UNCHANGED <<store, batch, pos, relayErr, kvlog, store0, delivered, redelivered, queueVars, registryVars, readerVars>>

\* The loop has run out of messages: the call resolves.
HandleUpdatesReturn ==
  /\ relay = "running"
  /\ pos > Len(batch)
  /\ relay' = "resolved"
  /\ UNCHANGED <<store, batch, pos, relayErr, kvlog, store0, delivered, redelivered, queueVars, registryVars, readerVars>>

(* ------------------------- the registry service ------------------------ *)

\* The record the registry holds as version n of id.
VersionRecord(id, n) == [id |-> id, prompt |-> versions[id][n], version |-> n]

\* The order in which the registry lists ids.
IdOrder == <<"a", "b">>

\* list: the current record of every id that has one.
RegistryList ==
  LET ids == SelectSeq(IdOrder, LAMBDA i : current[i])
  IN [k \in 1..Len(ids) |-> VersionRecord(ids[k], Len(versions[ids[k]]))]

\* getVersions(id): every version of id, oldest first.
RegistryVersions(id) == [n \in 1..Len(versions[id]) |-> VersionRecord(id, n)]

\* write({id, prompt}): a new version of id, one above the last, is current.
RegistryWrite(id, body) ==
  [versions |-> [versions EXCEPT ![id] = Append(@, body)],
   current |-> [current EXCEPT ![id] = TRUE]]

\* delete(id): id has no current record; its history stays.
RegistryDelete(id) ==
  [versions |-> versions, current |-> [current EXCEPT ![id] = FALSE]]

RegistrySame == [versions |-> versions, current |-> current]

Reply(ok, status, json, state) ==
  [ok |-> ok, status |-> status, json |-> json,
   versions |-> state.versions, current |-> state.current]

\* The replies the service may give to a request: the one of the route, or
\* a failure that changes nothing.
Serve(method, path, body) ==
  {Reply(FALSE, 500, <<>>, RegistrySame)} \cup
  { IF method = "GET" /\ Len(path) = 1
    THEN Reply(TRUE, 200, RegistryList, RegistrySame)
    ELSE IF method = "GET" /\ Len(path) = 2
    THEN IF current[path[2]]
         THEN Reply(TRUE, 200,
                    <<VersionRecord(path[2], Len(versions[path[2]]))>>, RegistrySame)
         ELSE Reply(FALSE, 404, <<>>, RegistrySame)
    ELSE IF method = "GET"
    THEN IF versions[path[2]] # <<>>
         THEN Reply(TRUE, 200, RegistryVersions(path[2]), RegistrySame)
         ELSE Reply(FALSE, 404, <<>>, RegistrySame)
    ELSE IF method = "POST" /\ Len(path) = 1
    THEN LET input == JSONParse(body)
         IN Reply(TRUE, 200, <<>>, RegistryWrite(input.id, input.prompt))
    ELSE IF method = "DELETE"
    THEN IF current[path[2]]
         THEN Reply(TRUE, 200, <<>>, RegistryDelete(path[2]))
         ELSE Reply(FALSE, 404, <<>>, RegistrySame)
    ELSE LET id == path[2]
             n == ParseNumber(path[4])
         IN IF n \in 1..Len(versions[id])
            THEN Reply(TRUE, 200, <<>>, RegistryWrite(id, versions[id][n]))
            ELSE Reply(FALSE, 404, <<>>, RegistrySame) }

RECURSIVE Held(_)
\* The number of versions the registry holds for the ids of S.
Held(S) ==
  IF S = {} THEN 0
  ELSE LET i == CHOOSE x \in S : TRUE IN Len(versions[i]) + Held(S \ {i})

\* A request that adds a version is taken only while the registry has room.
HasRoom == Held(Ids) < MaxHist

(* --------------------------- Teleprompter.HTTP ------------------------- *)

\* Mutant of Truthy: the test is for undefined alone.
TruthyDefined(x) == x # "undefined"

\* if (this.baseUrl), if (this.binding): undefined and '' are falsy.
Truthy(x) == x \notin {"undefined", ""}

\* The origin (scheme and host) of a base URL.
Origin(base) ==
  IF base = "https://api.example.com/v1" THEN "https://api.example.com" ELSE base

\* new URL(path, base).toString() for a path that starts with '/': the
\* path replaces the path of the base.
URLResolve(path, base) == <<Origin(base)>> \o path

\* Mutant of Fetch: a client with a binding sends through the global fetch.
FetchGlobalOnly(method, path, body) ==
  IF Truthy(http.baseUrl)
  THEN [threw |-> FALSE, via |-> "fetch", url |-> URLResolve(path, http.baseUrl),
        method |-> method, path |-> path, body |-> body]
  ELSE IF Truthy(http.binding)
  THEN [threw |-> FALSE, via |-> "fetch", url |-> URLResolve(path, "https://dummy"),
        method |-> method, path |-> path, body |-> body]
  ELSE [threw |-> TRUE, via |-> "none", url |-> <<>>,
        method |-> method, path |-> path, body |-> body]

\* Mutant of Fetch: a client with no transport falls back to the global fetch.
FetchFallback(method, path, body) ==
  IF Truthy(http.baseUrl)
  THEN [threw |-> FALSE, via |-> "fetch", url |-> URLResolve(path, http.baseUrl),
        method |-> method, path |-> path, body |-> body]
  ELSE IF Truthy(http.binding)
  THEN [threw |-> FALSE, via |-> "binding", url |-> URLResolve(path, "https://dummy"),
        method |-> method, path |-> path, body |-> body]
  ELSE [threw |-> FALSE, via |-> "fetch", url |-> URLResolve(path, "https://dummy"),
        method |-> method, path |-> path, body |-> body]

\* HTTP.fetch(path, init): the request goes to the global fetch when baseUrl
\* is set, else to the binding, else the call throws.
Fetch(method, path, body) ==
  IF Truthy(http.baseUrl)
  THEN [threw |-> FALSE, via |-> "fetch", url |-> URLResolve(path, http.baseUrl),
        method |-> method, path |-> path, body |-> body]
  ELSE IF Truthy(http.binding)
  THEN [threw |-> FALSE, via |-> "binding", url |-> URLResolve(path, "https://dummy"),
        method |-> method, path |-> path, body |-> body]
  ELSE [threw |-> TRUE, via |-> "none", url |-> <<>>,
        method |-> method, path |-> path, body |-> body]

OpStart(sdk, name, id, body, version) ==
  [sdk |-> sdk, name |-> name, id |-> id, body |-> body, version |-> version,
   pre |-> IF id \in Ids THEN versions[id] ELSE <<>>]

\* The record of a completed call: the requests it sent, the status of the
\* response it received (0 when none), how it ended, the message of the
\* Error it threw (<<>> when none) and the value it returned.
OpEnd(start, reqs, outcome, status, error, result) ==
  [sdk |-> start.sdk, name |-> start.name, id |-> start.id, body |-> start.body,
   version |-> start.version, pre |-> start.pre,
   reqs |-> reqs, outcome |-> outcome, status |-> status, error |-> error,
   result |-> result]

\* new Error('TeleprompterSDK was not initialized correctly')
InitializationError == <<"TeleprompterSDK was not initialized correctly">>

\* new Error(`HTTP error! status: ${response.status}`)
HttpStatusError(status) == <<"HTTP error! status: ", ToString(status)>>

\* Mutant of HTTPCall: response.ok is not looked at.
HTTPCallUnchecked(name, id, body, version, method, path, reqBody) ==
  LET f == Fetch(method, path, reqBody)
      start == OpStart("HTTP", name, id, body, version)
  IN /\ prevWrite' = WriteOf(lastOp)
     /\ IF f.threw
        THEN /\ lastOp' = OpEnd(start, <<>>, "InitializationError", 0,
                                InitializationError, <<>>)
             /\ UNCHANGED <<versions, current>>
        ELSE \E r \in Serve(method, path, reqBody) :
               /\ versions' = r.versions
               /\ current' = r.current
               /\ lastOp' = OpEnd(start, <<f>>, "ok", r.status, <<>>, r.json)

\* Mutant of HTTPCall: a request that got a non-ok response is sent again.
HTTPCallRetry(name, id, body, version, method, path, reqBody) ==
  LET f == Fetch(method, path, reqBody)
      start == OpStart("HTTP", name, id, body, version)
  IN /\ prevWrite' = WriteOf(lastOp)
     /\ IF f.threw
        THEN /\ lastOp' = OpEnd(start, <<>>, "InitializationError", 0,
                                InitializationError, <<>>)
             /\ UNCHANGED <<versions, current>>
        ELSE \E r \in Serve(method, path, reqBody) :
               /\ versions' = r.versions
               /\ current' = r.current
               /\ lastOp' = IF r.ok
                            THEN OpEnd(start, <<f>>, "ok", r.status, <<>>, r.json)
                            ELSE OpEnd(start, <<f, f>>, "HttpStatusError", r.status,
                                       HttpStatusError(r.status), <<>>)

\* One method of the HTTP client: a single this.fetch, then
\* if (!response.ok) throw new Error(`HTTP error! status: ${response.status}`),
\* then response.json() where the method returns one.
HTTPCall(name, id, body, version, method, path, reqBody) ==
  LET f == Fetch(method, path, reqBody)
      start == OpStart("HTTP", name, id, body, version)
  IN /\ prevWrite' = WriteOf(lastOp)
     /\ IF f.threw
        THEN /\ lastOp' = OpEnd(start, <<>>, "InitializationError", 0,
                                InitializationError, <<>>)
             /\ UNCHANGED <<versions, current>>
        ELSE \E r \in Serve(method, path, reqBody) :
               /\ versions' = r.versions
               /\ current' = r.current
               /\ lastOp' = IF r.ok
                            THEN OpEnd(start, <<f>>, "ok", r.status, <<>>, r.json)
                            ELSE OpEnd(start, <<f>>, "HttpStatusError", r.status,
                                       HttpStatusError(r.status), <<>>)

\* listPrompts(): GET /prompts
HTTPListPromptsCall == HTTPCall("listPrompts", "", "", 0, "GET", <<"prompts">>, <<>>)

\* Mutant of HTTPGetPromptCall: the versions path is fetched instead.
HTTPGetPromptCallVersionsPath(id) ==
  HTTPCall("getPrompt", id, "", 0, "GET", <<"prompts", id, "versions">>, <<>>)

\* getPrompt(id): GET /prompts/${id}
HTTPGetPromptCall(id) ==
  HTTPCall("getPrompt", id, "", 0, "GET", <<"prompts", id>>, <<>>)

\* Mutant of HTTPGetPromptVersionsCall: the path of the current record is fetched.
HTTPGetPromptVersionsCallCurrentPath(id) ==
  HTTPCall("getPromptVersions", id, "", 0, "GET", <<"prompts", id>>, <<>>)

\* getPromptVersions(id): GET /prompts/${id}/versions
HTTPGetPromptVersionsCall(id) ==
  HTTPCall("getPromptVersions", id, "", 0, "GET", <<"prompts", id, "versions">>, <<>>)

\* writePrompt(prompt): POST /prompts with body JSON.stringify(prompt)
HTTPWritePromptCall(id, body) ==
  HTTPCall("writePrompt", id, body, 0, "POST", <<"prompts">>,
           JSONStringify([id |-> id, prompt |-> body]))

\* deletePrompt(id): DELETE /prompts/${id}
HTTPDeletePromptCall(id) ==
  HTTPCall("deletePrompt", id, "", 0, "DELETE", <<"prompts", id>>, <<>>)

\* Mutant of HTTPRollbackPromptCall: the path names the next version.
HTTPRollbackPromptCallOffByOne(id, version) ==
  HTTPCall("rollbackPrompt", id, "", version, "POST",
           <<"prompts", id, "versions", ToString(version + 1)>>, <<>>)

\* rollbackPrompt(id, version): POST /prompts/${id}/versions/${version}
HTTPRollbackPromptCall(id, version) ==
  HTTPCall("rollbackPrompt", id, "", version, "POST",
           <<"prompts", id, "versions", ToString(version)>>, <<>>)

clientFrame == UNCHANGED <<relayVars, queueVars, readerVars, http, rb>>

HTTPListPrompts == HTTPListPromptsCall /\ clientFrame
HTTPGetPrompt(id) == HTTPGetPromptCall(id) /\ clientFrame
HTTPGetPromptVersions(id) == HTTPGetPromptVersionsCall(id) /\ clientFrame
HTTPWritePrompt(id, body) == HasRoom /\ HTTPWritePromptCall(id, body) /\ clientFrame
HTTPDeletePrompt(id) == HTTPDeletePromptCall(id) /\ clientFrame
HTTPRollbackPrompt(id, version) ==
  /\ HasRoom \/ version \notin 1..Len(versions[id])
  /\ HTTPRollbackPromptCall(id, version)
  /\ clientFrame

(* --------------------------- TeleprompterDOSDK ------------------------- *)

DOCall(method, id, body) ==
  [threw |-> FALSE, via |-> "do", url |-> <<>>, method |-> method,
   path |-> <<id>>, body |-> body]

\* Mutant of FindVersion: the latest version stands in for a missing one.
FindVersionOrLatest(v, version) ==
  LET S == {i \in 1..Len(v) : v[i].version = version}
  IN IF S = {} THEN (IF v = <<>> THEN <<>> ELSE <<v[Len(v)]>>)
     ELSE <<v[CHOOSE i \in S : \A j \in S : i <= j]>>

\* Mutant of FindVersion: the latest version at or above the target is taken.
FindVersionAtLeast(v, version) ==
  LET S == {i \in 1..Len(v) : v[i].version >= version}
  IN IF S = {} THEN <<>> ELSE <<v[CHOOSE i \in S : \A j \in S : i >= j]>>

\* v.find(v => v.version === version): the first match, if any.
FindVersion(v, version) ==
  LET S == {i \in 1..Len(v) : v[i].version = version}
  IN IF S = {} THEN <<>> ELSE <<v[CHOOSE i \in S : \A j \in S : i <= j]>>

\* rollbackPrompt(id, version), up to its await: this.getPromptVersions(id),
\* which is this.do.getVersions(id), is called and returns the versions.
DORollbackPromptFetch(id, version) ==
  /\ rb.st = "none"
  /\ rb' = [st |-> "fetched", id |-> id, version |-> version,
            v |-> RegistryVersions(id)]
  /\ UNCHANGED <<relayVars, queueVars, readerVars, http, versions, current, lastOp, prevWrite>>

\* rollbackPrompt(id, version), after the await: the version is looked up;
\* when missing the call throws 'Version not found', else
\* this.writePrompt({ id, prompt: rbVer.prompt }), which is this.do.write.
DORollbackPromptWrite ==
  /\ rb.st = "fetched"
  /\ LET rbVer == FindVersion(rb.v, rb.version)
         start == [sdk |-> "DO", name |-> "rollbackPrompt", id |-> rb.id,
                   body |-> "", version |-> rb.version,
                   pre |-> [n \in 1..Len(rb.v) |-> rb.v[n].prompt]]
         fetched == DOCall("getVersions", rb.id, <<>>)
     IN IF rbVer = <<>>
        THEN /\ lastOp' = OpEnd(start, <<fetched>>, "VersionNotFoundError", 0,
                                <<"Version not found">>, <<>>)
             /\ UNCHANGED <<versions, current>>
        ELSE /\ HasRoom
             /\ versions' = RegistryWrite(rb.id, rbVer[1].prompt).versions
             /\ current' = RegistryWrite(rb.id, rbVer[1].prompt).current
             /\ lastOp' = OpEnd(start,
                                <<fetched,
                                  DOCall("write", rb.id,
                                         JSONStringify([id |-> rb.id,
                                                        prompt |-> rbVer[1].prompt]))>>,
                                "ok", 0, <<>>, <<>>)
  /\ prevWrite' = WriteOf(lastOp)
  /\ rb' = NoRollback
  /\ UNCHANGED <<relayVars, queueVars, readerVars, http>>

\* Version numbers a caller asks to roll back to.
RollbackTargets == 1..MaxHist

NextRegistry ==
  \/ HTTPListPrompts
  \/ \E id \in Ids : HTTPGetPrompt(id)
  \/ \E id \in Ids : HTTPGetPromptVersions(id)
  \/ \E id \in Ids, body \in Bodies : HTTPWritePrompt(id, body)
  \/ \E id \in Ids : HTTPDeletePrompt(id)
  \/ \E id \in Ids, version \in RollbackTargets : HTTPRollbackPrompt(id, version)
  \/ \E id \in Ids, version \in RollbackTargets : DORollbackPromptFetch(id, version)
  \/ DORollbackPromptWrite

SpecRegistry == Init /\ [][NextRegistry]_vars

\* The HTTP client alone, constructed in each of the ways it can be.
NextClient ==
  \/ HTTPListPrompts
  \/ \E id \in Ids : HTTPGetPrompt(id)
  \/ \E id \in Ids : HTTPGetPromptVersions(id)
  \/ \E id \in Ids, body \in Bodies : HTTPWritePrompt(id, body)
  \/ \E id \in Ids : HTTPDeletePrompt(id)
  \/ \E id \in Ids, version \in RollbackTargets : HTTPRollbackPrompt(id, version)

SpecClient == InitClient /\ [][NextClient]_vars

(* ------------------------------ KV reader ------------------------------ *)

\* The null of KVNamespace.get for a key that is absent.
Null == [null |-> TRUE]

\* KV.get(id): this.KV.get<Prompt>(id, 'json')
KVGet(id) == IF id \in DOMAIN store THEN JSONParse(store[id]) ELSE Null

\* The entry the store holds for a key: <<text>>, or <<>> when it has none.
Entry(id) == IF id \in DOMAIN store THEN <<store[id]>> ELSE <<>>

(* mustache: values, contexts and templates *)

Undefined == [kind |-> "undefined", s |-> "", l |-> <<>>]
Str(s) == [kind |-> "str", s |-> s, l |-> <<>>]
List(l) == [kind |-> "list", s |-> "", l |-> l]

\* A context object: its properties `name` and `items`.
Context(name, items) == [name |-> name, items |-> items]

\* The ctx arguments render is called with.
Contexts ==
  {Context(Undefined, Undefined),
   Context(Str("World"), Undefined),
   Context(Str("A&B"), Undefined),
   Context(Undefined,
           List(<<Context(Str("Item 1"), Undefined),
                  Context(Str("Item 2"), Undefined)>>))}

Text(v) == [t |-> "text", v |-> v, inner |-> <<>>]
Name(v) == [t |-> "name", v |-> v, inner |-> <<>>]
Section(v, inner) == [t |-> "#", v |-> v, inner |-> inner]

\* The tokens of a template text: "p" stands for 'Hello {{name}}!' and "q"
\* for 'Items: {{#items}}{{name}}, {{/items}}'.
MustacheParse(template) ==
  IF template = "p"
  THEN <<Text("Hello "), Name("name"), Text("!")>>
  ELSE <<Text("Items: "), Section("items", <<Name("name"), Text(", ")>>)>>

\* HTML escaping of an interpolated value.
Escape(text) == IF text = "A&B" THEN "A&amp;B" ELSE text

RECURSIVE Lookup(_, _)
\* The value of a name: that of the innermost context that defines it.
Lookup(stack, name) ==
  IF stack = <<>> THEN Undefined
  ELSE IF Head(stack)[name].kind # "undefined" THEN Head(stack)[name]
  ELSE Lookup(Tail(stack), name)

RECURSIVE RenderTokens(_, _)
RECURSIVE RenderEach(_, _, _)
\* A section over a list: its tokens once per element, in list order.
RenderEach(tokens, elems, stack) ==
  IF elems = <<>> THEN <<>>
  ELSE RenderTokens(tokens, <<Head(elems)>> \o stack)
         \o RenderEach(tokens, Tail(elems), stack)

\* The pieces of text the tokens render to, in order.
RenderTokens(tokens, stack) ==
  IF tokens = <<>> THEN <<>>
  ELSE LET tok == Head(tokens)
           v == Lookup(stack, tok.v)
           piece ==
             IF tok.t = "text" THEN <<tok.v>>
             ELSE IF tok.t = "name"
             THEN (IF v.kind = "str" THEN <<Escape(v.s)>> ELSE <<>>)
             ELSE IF v.kind = "list" THEN RenderEach(tok.inner, v.l, stack)
             ELSE IF v.kind = "str" /\ v.s # "" THEN RenderTokens(tok.inner, stack)
             ELSE <<>>
       IN piece \o RenderTokens(Tail(tokens), stack)

\* Mustache.render(template, view)
MustacheRender(template, view) == RenderTokens(MustacheParse(template), <<view>>)

\* The record of a completed call of the KV reader.
ReadEnd(name, id, ctx, seen, outcome, error, result) ==
  [name |-> name, id |-> id, ctx |-> ctx, seen |-> seen, outcome |-> outcome,
   error |-> error, result |-> result, keys |-> <<>>, fetched |-> <<>>,
   order |-> <<>>]

\* The record of a completed KV.list call.
ListEnd(outcome, error, result) ==
  [name |-> "list", id |-> "", ctx |-> <<>>, seen |-> <<>>, outcome |-> outcome,
   error |-> error, result |-> result, keys |-> listing.keys,
   fetched |-> listing.got, order |-> listing.order]

\* The caller makes one call at a time.
ReaderIdle == listing.st # "fetching"

readerFrame == UNCHANGED <<relayVars, queueVars, registryVars, prevRead>>

RECURSIVE Perms(_)
\* Every order in which the store may enumerate a set of keys.
Perms(S) ==
  IF S = {} THEN {<<>>}
  ELSE UNION {{<<x>> \o p : p \in Perms(S \ {x})} : x \in S}

Pending == [st |-> "pending", value |-> Null, err |-> "none"]

\* Mutant of KVListReturn: the null entries are not filtered out.
KVListReturnUnfiltered ==
  /\ listing.st = "fetching"
  /\ \A i \in 1..Len(listing.got) : listing.got[i].st = "resolved"
  /\ lastRead' = ListEnd("ok", <<>>,
                          [i \in 1..Len(listing.got) |-> listing.got[i].value])
  /\ listing' = NoListing
  /\ readerFrame

\* Mutant of KVListGetResolve: a value goes to the next free place of the
\* array, in the order the fetches complete.
KVListGetResolveInArrivalOrder(i) ==
  /\ listing.st \in {"fetching", "failed"}
  /\ i \in 1..Len(listing.got)
  /\ Len(listing.order) < Len(listing.got)
  /\ i \notin {listing.order[k] : k \in 1..Len(listing.order)}
  /\ listing' = [listing EXCEPT
                   !.got[Len(listing.order) + 1] =
                     [st |-> "resolved", value |-> KVGet(listing.keys[i]),
                      err |-> "none"],
                   !.order = Append(@, i)]
  /\ UNCHANGED lastRead
  /\ readerFrame

\* Mutant of KVListGetResolve: the fetch resolves with what the store held
\* when the running HandleUpdates call started.
KVListGetResolveStale(i) ==
  /\ listing.st \in {"fetching", "failed"}
  /\ i \in 1..Len(listing.got)
  /\ listing.got[i].st = "pending"
  /\ listing' = [listing EXCEPT
                   !.got[i] = [st |-> "resolved",
                               value |-> IF listing.keys[i] \in DOMAIN store0
                                         THEN JSONParse(store0[listing.keys[i]])
                                         ELSE Null,
                               err |-> "none"],
                   !.order = Append(@, i)]
  /\ UNCHANGED lastRead
  /\ readerFrame

\* Mutant of KVListGetReject: the rejection is swallowed and the list goes on.
KVListGetRejectSkipped(i, e) ==
  /\ listing.st \in {"fetching", "failed"}
  /\ i \in 1..Len(listing.got)
  /\ listing.got[i].st = "pending"
  /\ listing' = [listing EXCEPT
                   !.got[i] = [st |-> "rejected", value |-> Null, err |-> e],
                   !.order = Append(@, i)]
  /\ UNCHANGED lastRead
  /\ readerFrame

\* KV.list(), up to Promise.all: this.KV.list() resolves with the keys of
\* the store in the order the store enumerates them, and the map callback
\* calls this.KV.get for every key.
KVListStart(keys) ==
  /\ ReaderIdle
  /\ keys \in Perms(DOMAIN store)
  /\ listing' = [st |-> "fetching", keys |-> keys,
                 got |-> [i \in 1..Len(keys) |-> Pending], order |-> <<>>]
  /\ lastRead' = NoRead
  /\ readerFrame

\* KV.list(): this.KV.list() rejects, and so does the call.
KVListReject(e) ==
  /\ ReaderIdle
  /\ listing' = [st |-> "failed", keys |-> <<>>, got |-> <<>>, order |-> <<>>]
  /\ lastRead' = [name |-> "list", id |-> "", ctx |-> <<>>, seen |-> <<>>,
                  outcome |-> "failed", error |-> <<e>>, result |-> <<>>,
                  keys |-> <<>>, fetched |-> <<>>, order |-> <<>>]
  /\ readerFrame

\* The this.KV.get of one key resolves, with what the store holds for the
\* key at that moment; the value takes the place of its key in the array.
KVListGetResolve(i) ==
  /\ listing.st \in {"fetching", "failed"}
  /\ i \in 1..Len(listing.got)
  /\ listing.got[i].st = "pending"
  /\ listing' = [listing EXCEPT
                   !.got[i] = [st |-> "resolved", value |-> KVGet(listing.keys[i]),
                               err |-> "none"],
                   !.order = Append(@, i)]
  /\ UNCHANGED lastRead
  /\ readerFrame

\* The this.KV.get of one key rejects: Promise.all rejects with the first
\* rejection, and with it the call; later rejections change nothing.
KVListGetReject(i, e) ==
  /\ listing.st \in {"fetching", "failed"}
  /\ i \in 1..Len(listing.got)
  /\ listing.got[i].st = "pending"
  /\ listing' = [listing EXCEPT
                   !.st = "failed",
                   !.got[i] = [st |-> "rejected", value |-> Null, err |-> e],
                   !.order = Append(@, i)]
  /\ lastRead' = IF listing.st = "fetching"
                 THEN [name |-> "list", id |-> "", ctx |-> <<>>, seen |-> <<>>,
                       outcome |-> "failed", error |-> <<e>>, result |-> <<>>,
                       keys |-> listing.keys, fetched |-> listing'.got,
                       order |-> listing'.order]
                 ELSE lastRead
  /\ readerFrame

\* Every this.KV.get has resolved: Promise.all resolves with the values in
\* key order and list returns prompts.filter((prompt) => prompt !== null).
KVListReturn ==
  /\ listing.st = "fetching"
  /\ \A i \in 1..Len(listing.got) : listing.got[i].st = "resolved"
  /\ lastRead' = ListEnd("ok", <<>>,
                          SelectSeq([i \in 1..Len(listing.got) |-> listing.got[i].value],
                                    LAMBDA prompt : prompt # Null))
  /\ listing' = NoListing
  /\ readerFrame

\* Mutant of KVGetCall: the discriminator tag is taken off the record.
KVGetCallBare(id) ==
  /\ ReaderIdle
  /\ lastRead' =
       ReadEnd("get", id, <<>>, Entry(id), "ok", <<>>,
               IF KVGet(id) = Null THEN Null
               ELSE [k \in DOMAIN KVGet(id) \ {"type"} |-> KVGet(id)[k]])
  /\ listing' = NoListing
  /\ readerFrame

\* Mutant of KVGetCall: a missing entry is an error.
KVGetCallThrows(id) ==
  /\ ReaderIdle
  /\ lastRead' = IF Entry(id) = <<>>
                 THEN ReadEnd("get", id, <<>>, Entry(id), "failed",
                              <<"not found">>, <<>>)
                 ELSE ReadEnd("get", id, <<>>, Entry(id), "ok", <<>>, KVGet(id))
  /\ listing' = NoListing
  /\ readerFrame

\* KV.get(id): the value this.KV.get<Prompt>(id, 'json') resolves with.
KVGetCall(id) ==
  /\ ReaderIdle
  /\ lastRead' = ReadEnd("get", id, <<>>, Entry(id), "ok", <<>>, KVGet(id))
  /\ listing' = NoListing
  /\ readerFrame

\* KV.get(id) or KV.render(id, ctx): this.KV.get rejects, and so does the call.
KVReadReject(name, id, ctx, e) ==
  /\ ReaderIdle
  /\ lastRead' = ReadEnd(name, id, ctx, <<>>, "failed", <<e>>, <<>>)
  /\ listing' = NoListing
  /\ readerFrame

\* new Error(`Prompt '${id}' not found`)
TemplateNotFoundError(id) == <<"Prompt '", id, "' not found">>

\* Mutant of KVRender: a missing prompt renders as the empty string.
KVRenderNoCheck(id, ctx) ==
  /\ ReaderIdle
  /\ LET prompt == KVGet(id)
     IN lastRead' =
          IF prompt = Null
          THEN ReadEnd("render", id, ctx, Entry(id), "ok", <<>>, <<"">>)
          ELSE ReadEnd("render", id, ctx, Entry(id), "ok", <<>>,
                       MustacheRender(prompt.prompt, ctx))
  /\ listing' = NoListing
  /\ readerFrame

\* Mutant of KVRender: the template is rendered without the context.
KVRenderNoContext(id, ctx) ==
  /\ ReaderIdle
  /\ LET prompt == KVGet(id)
     IN lastRead' =
          IF prompt = Null
          THEN ReadEnd("render", id, ctx, Entry(id), "TemplateNotFoundError",
                       TemplateNotFoundError(id), <<>>)
          ELSE ReadEnd("render", id, ctx, Entry(id), "ok", <<>>,
                       MustacheRender(prompt.prompt, Context(Undefined, Undefined)))
  /\ listing' = NoListing
  /\ readerFrame

\* Mutant of KVRenderCall: the text rendered last for an id is kept and
\* returned for the next render of that id.
KVRenderCallCached(id, ctx) ==
  /\ ReaderIdle
  /\ LET prompt == KVGet(id)
     IN lastRead' =
          IF prompt = Null
          THEN ReadEnd("render", id, ctx, Entry(id), "TemplateNotFoundError",
                       TemplateNotFoundError(id), <<>>)
          ELSE IF lastRead.name = "render" /\ lastRead.id = id /\ lastRead.outcome = "ok"
          THEN ReadEnd("render", id, ctx, Entry(id), "ok", <<>>, lastRead.result)
          ELSE ReadEnd("render", id, ctx, Entry(id), "ok", <<>>,
                       MustacheRender(prompt.prompt, ctx))
  /\ listing' = NoListing

\* KV.render(id, ctx): this.get(id), then the throw for null, else
\* Mustache.render(prompt?.prompt, ctx).
KVRenderCall(id, ctx) ==
  /\ ReaderIdle
  /\ LET prompt == KVGet(id)
     IN lastRead' =
          IF prompt = Null
          THEN ReadEnd("render", id, ctx, Entry(id), "TemplateNotFoundError",
                       TemplateNotFoundError(id), <<>>)
          ELSE ReadEnd("render", id, ctx, Entry(id), "ok", <<>>,
                       MustacheRender(prompt.prompt, ctx))
  /\ listing' = NoListing

\* A call of KV.render.
KVRender(id, ctx) == KVRenderCall(id, ctx) /\ readerFrame

\* A call of KV.render by a caller that keeps the render before it.
KVRenderAfter(id, ctx) ==
  /\ KVRenderCall(id, ctx)
  /\ prevRead' = lastRead
  /\ UNCHANGED <<relayVars, queueVars, registryVars>>

\* The batches the relay is handed while the reader runs: one update or
\* delete message each.
ReaderBatches == {b \in Batches : Len(b) = 1 /\ b[1].type # "prompt-other"}

\* Batches delivered while the reader runs: enough for two keys to be
\* stored and one of them deleted.
ReaderDeliveries == MaxDeliveries + 1

\* HandleUpdates is called with a batch while the reader runs.
ReaderHandleUpdates(b) ==
  /\ delivered < ReaderDeliveries
  /\ HandleUpdatesEnter(b)
  /\ delivered' = delivered + 1
  /\ UNCHANGED <<queueVars, registryVars, readerVars>>

\* The KV reader, with HandleUpdates changing the store between its steps.
NextReader ==
  \/ \E b \in ReaderBatches : ReaderHandleUpdates(b)
  \/ HandleUpdatesLoop
  \/ KVResolve
  \/ HandleUpdatesReturn
  \/ \E keys \in Perms(DOMAIN store) : KVListStart(keys)
  \/ \E e \in StoreErrors : KVListReject(e)
  \/ \E i \in 1..Cardinality(Ids) : KVListGetResolve(i)
  \/ \E i \in 1..Cardinality(Ids), e \in StoreErrors : KVListGetReject(i, e)
  \/ KVListReturn
  \/ \E id \in Ids : KVGetCall(id)
  \/ \E id \in Ids, ctx \in Contexts : KVRender(id, ctx)
  \/ \E id \in Ids, e \in StoreErrors : KVReadReject("get", id, <<>>, e)
  \/ \E id \in Ids, ctx \in Contexts, e \in StoreErrors :
       KVReadReject("render", id, ctx, e)

SpecReader == Init /\ [][NextReader]_vars

\* Renders one after the other, with HandleUpdates changing the store
\* between them.
NextRender ==
  \/ \E b \in ReaderBatches : HandleUpdates(b)
  \/ HandleUpdatesLoop
  \/ KVResolve
  \/ HandleUpdatesReturn
  \/ \E id \in Ids, ctx \in Contexts : KVRenderAfter(id, ctx)

SpecRender == Init /\ [][NextRender]_vars

(* -------------------- registry, queue and relay together --------------- *)

\* The producer writes a prompt through the HTTP client and, when the write
\* succeeded, publishes the update notification of the registry's new
\* current record.
ProducerWrite(id, body) ==
  /\ HasRoom
  /\ published < MaxPublished
  /\ HTTPWritePromptCall(id, body)
  /\ IF lastOp'.outcome = "ok"
     THEN /\ queue' = Append(queue,
                             UpdateMessage([id |-> id,
                                            prompt |-> versions'[id][Len(versions'[id])],
                                            version |-> Len(versions'[id])]))
          /\ published' = published + 1
     ELSE UNCHANGED queueVars
  /\ UNCHANGED <<relayVars, readerVars, http, rb>>

\* The producer deletes a prompt through the HTTP client and, when the
\* delete succeeded, publishes the delete notification.
ProducerDelete(id) ==
  /\ published < MaxPublished
  /\ HTTPDeletePromptCall(id)
  /\ IF lastOp'.outcome = "ok"
     THEN /\ queue' = Append(queue, DeleteMessage(id))
          /\ published' = published + 1
     ELSE UNCHANGED queueVars
  /\ UNCHANGED <<relayVars, readerVars, http, rb>>

\* The queue hands its first n notifications to HandleUpdates as a batch.
QueueDeliver(n) ==
  /\ relay # "rejected"
  /\ n \in 1..Len(queue)
  /\ HandleUpdatesEnter(SubSeq(queue, 1, n))
  /\ queue' = SubSeq(queue, n + 1, Len(queue))
  /\ UNCHANGED <<delivered, published, registryVars, readerVars>>

\* A batch whose call rejected goes back to the head of the queue.
QueueRetry ==
  /\ relay = "rejected"
  /\ queue' = batch \o queue
  /\ relay' = "idle"
  /\ UNCHANGED <<store, batch, pos, relayErr, kvlog, store0, delivered,
                 redelivered, published, registryVars, readerVars>>

NextSync ==
  \/ \E id \in Ids, body \in Bodies : ProducerWrite(id, body)
  \/ \E id \in Ids : ProducerDelete(id)
  \/ \E n \in 1..MaxBatch : QueueDeliver(n)
  \/ QueueRetry
  \/ HandleUpdatesLoop
  \/ KVResolve
  \/ \E e \in StoreErrors : KVReject(e)
  \/ HandleUpdatesReturn

SpecSync == Init /\ [][NextSync]_vars

Next ==
  \/ \E b \in Batches : HandleUpdates(b)
  \/ HandleUpdatesLoop
  \/ KVResolve
  \/ \E e \in StoreErrors : KVReject(e)
  \/ HandleUpdatesReturn

Spec == Init /\ [][Next]_vars

\* The queue delivers again the batch of the call that has just resolved
\* (at-least-once delivery), once more than the deliveries of new batches.
Redeliver ==
  /\ relay = "resolved"
  /\ delivered < MaxDeliveries + 1
  /\ HandleUpdatesEnter(batch)
  /\ delivered' = delivered + 1
  /\ UNCHANGED <<queueVars, registryVars, readerVars>>

NextRedeliver ==
  \/ \E b \in Batches : HandleUpdates(b)
  \/ Redeliver
  \/ HandleUpdatesLoop
  \/ KVResolve
  \/ \E e \in StoreErrors : KVReject(e)
  \/ HandleUpdatesReturn

SpecRedeliver == Init /\ [][NextRedeliver]_vars

(* ------------------- properties of the Update Relay -------------------- *)

IsUpdate(m) == m.type = "prompt-update"
IsDelete(m) == m.type = "prompt-delete"

\* The last update or delete message for id among the first n of the batch
\* (0 when there is none).
LastFor(id, n) ==
  LET S == {k \in 1..n : batch[k].id = id /\ (IsUpdate(batch[k]) \/ IsDelete(batch[k]))}
  IN IF S = {} THEN 0 ELSE CHOOSE k \in S : \A j \in S : j <= k

\* The store entry at id is what batch message k leaves there.
Reflects(id, k) ==
  IF IsUpdate(batch[k])
  THEN id \in DOMAIN store /\ store[id] = JSONStringify(batch[k])
  ELSE id \notin DOMAIN store

LogOf(k) == {i \in 1..Len(kvlog) : kvlog[i].msg = k}

\* C1: the store operations of a call are issued in batch order and one at a
\* time: when an operation has been issued, every operation issued before it
\* has completed and belongs to an earlier message, and an operation is
\* pending only while the call awaits it.
C1_SequentialInBatchOrder ==
  \A i \in 1..Len(kvlog) :
    /\ i < Len(kvlog) => kvlog[i].state = "done" /\ kvlog[i].msg < kvlog[i + 1].msg
    /\ kvlog[i].state = "pending" => relay = "awaiting" /\ kvlog[i].msg = pos
    /\ kvlog[i].msg <= pos

C1_Witness ==
  /\ Len(kvlog) = 2
  /\ kvlog[1].state = "done"
  /\ kvlog[2].state = "pending"

\* C2: when a call has resolved, for every id named by an update or delete
\* message of the batch the store reflects the last such message: the entry
\* holds that update's payload, or is absent after a delete.
C2_LastMessageWins ==
  relay = "resolved" =>
    \A id \in Ids :
      LET k == LastFor(id, Len(batch)) IN k > 0 => Reflects(id, k)

C2_Witness ==
  /\ relay = "resolved"
  /\ Len(batch) = 2
  /\ IsUpdate(batch[1]) /\ IsUpdate(batch[2])
  /\ batch[1].id = batch[2].id
  /\ batch[1] # batch[2]
  /\ store[batch[2].id] = JSONStringify(batch[2])

\* C3: a store operation that fails makes the call reject with that error;
\* it is the last operation issued, the operations before it have completed
\* and their effects are in the store (for every id the last earlier message
\* is reflected, and an id no earlier message names is as it was at the
\* start), and no operation exists for a later message.
C3_HaltAndPropagate ==
  /\ \A i \in 1..Len(kvlog) :
       kvlog[i].state = "failed" =>
         /\ relay = "rejected"
         /\ relayErr = kvlog[i].err
         /\ i = Len(kvlog)
         /\ kvlog[i].msg = pos
  /\ relay = "rejected" =>
       /\ kvlog # <<>>
       /\ kvlog[Len(kvlog)].state = "failed"
       /\ \A i \in 1..Len(kvlog) : kvlog[i].msg <= pos
       /\ \A i \in 1..(Len(kvlog) - 1) : kvlog[i].state = "done"
       /\ \A id \in Ids :
            LET j == LastFor(id, pos - 1)
            IN IF j > 0 THEN Reflects(id, j)
               ELSE /\ (id \in DOMAIN store) = (id \in DOMAIN store0)
                    /\ id \in DOMAIN store => store[id] = store0[id]

C3_Witness ==
  /\ relay = "rejected"
  /\ pos = 2
  /\ Len(kvlog) = 2
  /\ IsUpdate(batch[1])
  /\ batch[1].id = batch[2].id
  /\ store # store0

\* C4: when a call has resolved, every update message has exactly one store
\* operation, a completed put at its id, every delete message exactly one, a
\* completed delete at its id, and there is no other operation: as many puts
\* as update messages and as many deletes as delete messages.
C4_NoMessageSkipped ==
  relay = "resolved" =>
    /\ \A k \in 1..Len(batch) :
         /\ IsUpdate(batch[k]) =>
              /\ Cardinality(LogOf(k)) = 1
              /\ \A i \in LogOf(k) :
                   kvlog[i].op = "put" /\ kvlog[i].key = batch[k].id
                     /\ kvlog[i].state = "done"
         /\ IsDelete(batch[k]) =>
              /\ Cardinality(LogOf(k)) = 1
              /\ \A i \in LogOf(k) :
                   kvlog[i].op = "delete" /\ kvlog[i].key = batch[k].id
                     /\ kvlog[i].state = "done"
    /\ Cardinality({i \in 1..Len(kvlog) : kvlog[i].op = "put"})
         = Cardinality({k \in 1..Len(batch) : IsUpdate(batch[k])})
    /\ Cardinality({i \in 1..Len(kvlog) : kvlog[i].op = "delete"})
         = Cardinality({k \in 1..Len(batch) : IsDelete(batch[k])})

C4_Witness ==
  /\ relay = "resolved"
  /\ Len(batch) = 2
  /\ IsUpdate(batch[1])
  /\ IsDelete(batch[2])
  /\ batch[1].id # batch[2].id
  /\ Len(kvlog) = 2

\* C5: every store operation issued for an update message is a put at the
\* message's id whose value is the serialized notification: it parses to the
\* id, body and version of the message together with the tag
\* 'prompt-update', it is not the serialization of the bare record, and once
\* the put has completed the entry at id is that value.
C5_UpdateStoresPayload ==
  \A i \in 1..Len(kvlog) :
    LET m == batch[kvlog[i].msg] IN
    IsUpdate(m) =>
      /\ kvlog[i].op = "put"
      /\ kvlog[i].key = m.id
      /\ LET o == JSONParse(kvlog[i].value)
         IN /\ DOMAIN o = {"id", "prompt", "version", "type"}
            /\ o.id = m.id
            /\ o.prompt = m.prompt
            /\ o.version = m.version
            /\ o.type = "prompt-update"
      /\ kvlog[i].value
           # JSONStringify([id |-> m.id, prompt |-> m.prompt, version |-> m.version])
      /\ (kvlog[i].state = "done" /\ i = Len(kvlog)) =>
           (m.id \in DOMAIN store /\ store[m.id] = kvlog[i].value)

C5_Witness ==
  /\ relay = "resolved"
  /\ Len(kvlog) = 1
  /\ kvlog[1].op = "put"
  /\ kvlog[1].state = "done"
  /\ JSONParse(store[kvlog[1].key]).version = 2

(* ------------------ properties of the registry clients ----------------- *)

IsRollback(op) == op.name = "rollbackPrompt"

\* The rollback asked for a version its id did not have when it started.
TargetMissing(op) == op.version \notin 1..Len(op.pre)

\* A request that writes a prompt: POST /prompts, or the durable object's write.
IsWriteRequest(r) ==
  \/ r.via = "do" /\ r.method = "write"
  \/ r.via # "do" /\ r.method = "POST" /\ r.path = <<"prompts">>

\* A request that fetches the versions of id.
IsVersionsFetch(r, id) ==
  \/ r.via = "do" /\ r.method = "getVersions" /\ r.path = <<id>>
  \/ r.via # "do" /\ r.method = "GET" /\ r.path = <<"prompts", id, "versions">>

\* The single request of the HTTP client's rollbackPrompt.
IsRollbackPost(r, id, version) ==
  /\ r.via # "do"
  /\ r.method = "POST"
  /\ r.path = <<"prompts", id, "versions", ToString(version)>>
  /\ r.body = <<>>

\* C7 as stated: a rollback to a version that does not exist fails with
\* VersionNotFoundError and issues no write, whichever client runs it.
C7_Original ==
  (IsRollback(lastOp) /\ TargetMissing(lastOp)) =>
    /\ lastOp.outcome = "VersionNotFoundError"
    /\ \A i \in 1..Len(lastOp.reqs) : ~IsWriteRequest(lastOp.reqs[i])

\* C7 amended: a rollback to a version that does not exist issues no write.
\* The durable-object client fails with VersionNotFoundError after its one
\* version fetch.  The HTTP client looks up nothing: it sends its one
\* rollback POST and fails exactly when the response is not a success, with
\* HttpStatusError and that status, never with VersionNotFoundError.
C7_MissingVersion ==
  (IsRollback(lastOp) /\ TargetMissing(lastOp)) =>
    /\ \A i \in 1..Len(lastOp.reqs) : ~IsWriteRequest(lastOp.reqs[i])
    /\ lastOp.sdk = "DO" =>
         /\ lastOp.outcome = "VersionNotFoundError"
         /\ Len(lastOp.reqs) = 1
         /\ IsVersionsFetch(lastOp.reqs[1], lastOp.id)
    /\ lastOp.sdk = "HTTP" =>
         /\ lastOp.outcome # "VersionNotFoundError"
         /\ lastOp.reqs # <<>> =>
              /\ Len(lastOp.reqs) = 1
              /\ IsRollbackPost(lastOp.reqs[1], lastOp.id, lastOp.version)
              /\ (lastOp.outcome = "HttpStatusError") = (lastOp.status \notin 200..299)
              /\ (lastOp.outcome = "ok") = (lastOp.status \in 200..299)

C7_Witness ==
  /\ IsRollback(lastOp)
  /\ lastOp.sdk = "DO"
  /\ Len(lastOp.pre) = 2
  /\ lastOp.version = 3
  /\ lastOp.outcome = "VersionNotFoundError"

\* C8 as stated: a successful rollback has fetched the versions of id and
\* then, as its last request, written the body of the target version.
C8_Original ==
  (IsRollback(lastOp) /\ lastOp.outcome = "ok") =>
    /\ Len(lastOp.reqs) = 2
    /\ IsVersionsFetch(lastOp.reqs[1], lastOp.id)
    /\ IsWriteRequest(lastOp.reqs[2])

\* C8 amended: the durable-object client's rollback first fetches the
\* versions of id and, only when the target is among them, issues as its
\* second and last request a write of {id, that version's body}; while the
\* fetch is all that has happened no write exists.  The HTTP client's
\* rollback issues one request, POST /prompts/{id}/versions/{version}, with
\* no version fetch and no write.
C8_RollbackRequests ==
  /\ (IsRollback(lastOp) /\ lastOp.sdk = "DO") =>
       /\ lastOp.reqs # <<>>
       /\ IsVersionsFetch(lastOp.reqs[1], lastOp.id)
       /\ IF lastOp.outcome = "ok"
          THEN /\ ~TargetMissing(lastOp)
               /\ Len(lastOp.reqs) = 2
               /\ lastOp.reqs[2]
                    = DOCall("write", lastOp.id,
                             JSONStringify([id |-> lastOp.id,
                                            prompt |-> lastOp.pre[lastOp.version]]))
          ELSE Len(lastOp.reqs) = 1
  /\ (IsRollback(lastOp) /\ lastOp.sdk = "HTTP" /\ lastOp.reqs # <<>>) =>
       /\ Len(lastOp.reqs) = 1
       /\ IsRollbackPost(lastOp.reqs[1], lastOp.id, lastOp.version)

C8_Witness ==
  /\ IsRollback(lastOp)
  /\ lastOp.sdk = "DO"
  /\ lastOp.outcome = "ok"
  /\ Len(lastOp.pre) = 2
  /\ lastOp.version = 1
  /\ lastOp.pre[1] # lastOp.pre[2]

\* C9: after a successful rollback of id to a version it had, id has a
\* current record whose body is that version's body, the record is a new
\* version (the version number is above what it was when the rollback
\* started), and every version that existed then is unchanged.
C9_RollbackResult ==
  (IsRollback(lastOp) /\ lastOp.outcome = "ok" /\ ~TargetMissing(lastOp)) =>
    LET id == lastOp.id IN
    /\ current[id]
    /\ Len(versions[id]) > Len(lastOp.pre)
    /\ versions[id][Len(versions[id])] = lastOp.pre[lastOp.version]
    /\ \A n \in 1..Len(lastOp.pre) : versions[id][n] = lastOp.pre[n]

C9_Witness ==
  /\ IsRollback(lastOp)
  /\ lastOp.sdk = "DO"
  /\ lastOp.outcome = "ok"
  /\ lastOp.pre = <<"p", "q">>
  /\ lastOp.version = 1
  /\ versions[lastOp.id] = <<"p", "q", "p">>

\* C10: a getPrompt(id) that succeeds right after a successful
\* writePrompt({id, body}) returns the record of id with that body and with
\* the version one above the number of versions id had before the write (1
\* for the first write).
C10_WriteThenGet ==
  (/\ lastOp.sdk = "HTTP"
   /\ lastOp.name = "getPrompt"
   /\ prevWrite.st = "written"
   /\ prevWrite.id = lastOp.id) =>
    /\ lastOp.outcome = "ok" =>
         /\ Len(lastOp.result) = 1
         /\ lastOp.result[1].id = prevWrite.id
         /\ lastOp.result[1].prompt = prevWrite.body
         /\ lastOp.result[1].version = prevWrite.prior + 1
    /\ lastOp.status # 404

C10_Witness ==
  /\ lastOp.name = "getPrompt"
  /\ lastOp.outcome = "ok"
  /\ prevWrite.st = "written"
  /\ prevWrite.id = lastOp.id
  /\ prevWrite.prior = 1
  /\ lastOp.result[1].version = 2
  /\ lastOp.pre[1] # lastOp.result[1].prompt

(* ------------- the cache against the registry (SpecSync) --------------- *)

\* Every published notification has been processed by the relay.
Synced == queue = <<>> /\ relay \in {"idle", "resolved"}

\* C6: when every mutation's notification has been published in mutation
\* order and the relay has processed them all, a read of the cache agrees
\* with the registry for every id: KV.get returns a record with the id, body
\* and version of the registry's current record, or null (and the store has
\* no entry) when the registry has no current record.
C6_CacheAgreesWithRegistry ==
  Synced =>
    \A id \in Ids :
      IF current[id]
      THEN /\ id \in DOMAIN store
           /\ KVGet(id).id = id
           /\ KVGet(id).prompt = versions[id][Len(versions[id])]
           /\ KVGet(id).version = Len(versions[id])
      ELSE /\ id \notin DOMAIN store
           /\ KVGet(id) = Null

C6_Witness ==
  /\ Synced
  /\ published = 3
  /\ \E id \in Ids :
       /\ current[id]
       /\ Len(versions[id]) = 2
       /\ KVGet(id).version = 2
       /\ KVGet(id).prompt # versions[id][1]
  /\ \E id \in Ids : id \notin DOMAIN store

(* ------------- properties of the HTTP client's transport --------------- *)

HTTPOps ==
  {"listPrompts", "getPrompt", "getPromptVersions", "writePrompt",
   "deletePrompt", "rollbackPrompt"}

\* A completed call of the HTTP client that received a response.
Responded(op) == op.sdk = "HTTP" /\ op.name \in HTTPOps /\ op.reqs # <<>>

\* C11: every operation of the HTTP client (listPrompts, getPrompt,
\* getPromptVersions, writePrompt, deletePrompt, rollbackPrompt) whose
\* response has a status outside 200..299 throws the error whose message
\* carries exactly that status, and returns nothing.
C11_NonSuccessFails ==
  Responded(lastOp) /\ lastOp.status \notin 200..299
    => /\ lastOp.outcome = "HttpStatusError"
       /\ lastOp.error = <<"HTTP error! status: ", ToString(lastOp.status)>>
       /\ lastOp.result = <<>>

\* A rollback to a version the registry does not have was answered 404 and
\* threw with 404 in its message.
C11_Witness ==
  /\ Responded(lastOp)
  /\ lastOp.name = "rollbackPrompt"
  /\ lastOp.status = 404
  /\ lastOp.outcome = "HttpStatusError"
  /\ lastOp.error = <<"HTTP error! status: ", "404">>

\* C12: an operation called on a client that has neither a base URL nor a
\* binding throws the initialization error, sends no request on any
\* transport and leaves the registry as it was.
C12_Uninitialized ==
  lastOp.sdk = "HTTP" /\ ~Truthy(http.baseUrl) /\ ~Truthy(http.binding)
    => /\ lastOp.outcome = "InitializationError"
       /\ lastOp.error = <<"TeleprompterSDK was not initialized correctly">>
       /\ lastOp.reqs = <<>>
       /\ lastOp.status = 0
       /\ lastOp.result = <<>>
       /\ \A i \in Ids : versions[i] = <<>> /\ ~current[i]

\* A writePrompt on a client constructed with undefined threw the
\* initialization error.
C12_Witness ==
  /\ http = [baseUrl |-> "undefined", binding |-> "undefined"]
  /\ lastOp.sdk = "HTTP"
  /\ lastOp.name = "writePrompt"
  /\ lastOp.outcome = "InitializationError"
  /\ lastOp.reqs = <<>>

\* C13: a call of listPrompts, getPrompt, getPromptVersions, writePrompt or
\* deletePrompt that ends with a result or with a status error has sent
\* exactly one request; a call sends a request only when it ends one of
\* these two ways.
C13_OneRequest ==
  lastOp.sdk = "HTTP" /\ lastOp.name \in HTTPOps \ {"rollbackPrompt"}
    => /\ lastOp.outcome \in {"ok", "HttpStatusError"} => Len(lastOp.reqs) = 1
       /\ lastOp.outcome \notin {"ok", "HttpStatusError"} => lastOp.reqs = <<>>

\* A getPrompt answered 500 sent one request and threw.
C13_Witness ==
  /\ lastOp.sdk = "HTTP"
  /\ lastOp.name = "getPrompt"
  /\ lastOp.status = 500
  /\ lastOp.outcome = "HttpStatusError"
  /\ Len(lastOp.reqs) = 1

\* The method, path and body of the interface table for a call.
TableRequest(op) ==
  CASE op.name = "listPrompts" ->
         [method |-> "GET", path |-> <<"prompts">>, input |-> <<>>]
    [] op.name = "getPrompt" ->
         [method |-> "GET", path |-> <<"prompts", op.id>>, input |-> <<>>]
    [] op.name = "getPromptVersions" ->
         [method |-> "GET", path |-> <<"prompts", op.id, "versions">>, input |-> <<>>]
    [] op.name = "writePrompt" ->
         [method |-> "POST", path |-> <<"prompts">>,
          input |-> <<[id |-> op.id, prompt |-> op.body]>>]
    [] op.name = "deletePrompt" ->
         [method |-> "DELETE", path |-> <<"prompts", op.id>>, input |-> <<>>]
    [] op.name = "rollbackPrompt" ->
         [method |-> "POST",
          path |-> <<"prompts", op.id, "versions", ToString(op.version)>>,
          input |-> <<>>]

\* C14: every request of the HTTP client has the method and path of the
\* interface table for the operation called, and a body only for
\* writePrompt, where it is the JSON text of {id, prompt}.
C14_MethodAndPath ==
  Responded(lastOp)
    => \A i \in 1..Len(lastOp.reqs) :
         LET r == lastOp.reqs[i]
             t == TableRequest(lastOp)
         IN /\ r.method = t.method
            /\ r.path = t.path
            /\ IF t.input = <<>> THEN r.body = <<>>
               ELSE r.body # <<>> /\ JSONParse(r.body) = t.input[1]

\* A writePrompt sent POST /prompts through the binding with the input as
\* its JSON body.
C14_Witness ==
  /\ Responded(lastOp)
  /\ lastOp.name = "writePrompt"
  /\ lastOp.id = "b"
  /\ lastOp.body = "q"
  /\ lastOp.reqs[1].method = "POST"
  /\ lastOp.reqs[1].path = <<"prompts">>
  /\ lastOp.reqs[1].body = <<<<"id", "str", "b">>, <<"prompt", "str", "q">>>>

\* C15: a client constructed with a binding sends every request through
\* the binding, at the path under https://dummy, and none through the
\* global fetch; a client constructed with a base URL sends every request
\* through the global fetch, at the path resolved against the base URL (the
\* path of the base URL itself is replaced), and none through a binding.
C15_Transport ==
  lastOp.sdk = "HTTP"
    => \A i \in 1..Len(lastOp.reqs) :
         LET r == lastOp.reqs[i]
         IN /\ http.binding # "undefined"
                 => r.via = "binding" /\ r.url = <<"https://dummy">> \o r.path
            /\ http.baseUrl # "undefined"
                 => /\ r.via = "fetch"
                    /\ http.baseUrl = "https://api.example.com/v1"
                    /\ r.url = <<"https://api.example.com">> \o r.path

\* A listPrompts on a client with a binding went to https://dummy/prompts
\* on the binding.
C15_Witness ==
  /\ http = [baseUrl |-> "undefined", binding |-> "API_BINDING"]
  /\ lastOp.sdk = "HTTP"
  /\ lastOp.name = "listPrompts"
  /\ Len(lastOp.reqs) = 1
  /\ lastOp.reqs[1].via = "binding"
  /\ lastOp.reqs[1].url = <<"https://dummy", "prompts">>

(* --------------------- properties of the KV reader --------------------- *)

\* A completed KV.list call that returned a list.
ListReturned(r) == r.name = "list" /\ r.outcome = "ok"

\* The call failed because the store rejected its this.KV.get.
StoreRejected(r) == r.outcome = "failed" /\ \E e \in StoreErrors : r.error = <<e>>

\* The places of the enumerated keys whose fetch resolved to a record.
Kept(r) == {i \in 1..Len(r.fetched) : r.fetched[i].value # Null}

\* C16: the list KV.list returns holds exactly the values of the
\* enumerated keys whose fetch resolved to a record: the null of a key that
\* is absent is dropped, no element is null, and a list call fails only
\* when a store call rejected, never because a key was absent.
C16_ListDropsAbsent ==
  /\ ListReturned(lastRead)
       => /\ Len(lastRead.fetched) = Len(lastRead.keys)
          /\ Len(lastRead.result) = Cardinality(Kept(lastRead))
          /\ \A j \in 1..Len(lastRead.result) : lastRead.result[j] # Null
          /\ \A i \in Kept(lastRead) :
               \E j \in 1..Len(lastRead.result) :
                 lastRead.result[j] = lastRead.fetched[i].value
          /\ \A j \in 1..Len(lastRead.result) :
               \E i \in Kept(lastRead) :
                 lastRead.result[j] = lastRead.fetched[i].value
  /\ lastRead.name = "list" /\ lastRead.outcome # "ok"
       => /\ StoreRejected(lastRead)
          /\ \/ lastRead.fetched = <<>>
             \/ \E i \in 1..Len(lastRead.fetched) : lastRead.fetched[i].st = "rejected"

\* Two keys were enumerated, one fetch resolved to a record and the other to
\* null, and the list returned has the one record.
C16_Witness ==
  /\ ListReturned(lastRead)
  /\ Len(lastRead.keys) = 2
  /\ lastRead.fetched[1].value # Null
  /\ lastRead.fetched[2].value = Null
  /\ lastRead.result = <<lastRead.fetched[1].value>>

\* C17: the list KV.list returns follows the order in which the store
\* enumerated the keys, with the absent ones left out, whatever the order
\* in which the fetches completed.
C17_ListInEnumerationOrder ==
  ListReturned(lastRead)
    => LET places == SelectSeq([i \in 1..Len(lastRead.keys) |-> i],
                               LAMBDA i : i \in Kept(lastRead))
       IN /\ Len(lastRead.result) = Len(places)
          /\ \A j \in 1..Len(places) :
               /\ lastRead.result[j].id = lastRead.keys[places[j]]
               /\ lastRead.result[j] = lastRead.fetched[places[j]].value

\* The fetch of the second key completed before that of the first, and the
\* list has the first key's record first.
C17_Witness ==
  /\ ListReturned(lastRead)
  /\ lastRead.keys = <<"b", "a">>
  /\ lastRead.order = <<2, 1>>
  /\ Len(lastRead.result) = 2
  /\ lastRead.result[1].id = "b"
  /\ lastRead.result[2].id = "a"

\* The place of the fetch that rejected first.
FirstRejected(l) ==
  l.order[CHOOSE k \in 1..Len(l.order) :
            /\ l.got[l.order[k]].st = "rejected"
            /\ \A m \in 1..(k - 1) : l.got[l.order[m]].st # "rejected"]

\* C18: KV.list issues one fetch per enumerated key; it returns a list only
\* when every one of them has resolved, and nothing before; once a fetch
\* has rejected the call has failed, with the error of the fetch that
\* rejected first, and returns no list.
C18_ListAwaitsAllAndFails ==
  /\ Len(listing.got) = Len(listing.keys)
  /\ ListReturned(lastRead)
       => /\ Len(lastRead.fetched) = Len(lastRead.keys)
          /\ \A i \in 1..Len(lastRead.fetched) : lastRead.fetched[i].st = "resolved"
  /\ listing.st = "fetching" => lastRead = NoRead
  /\ (\E i \in 1..Len(listing.got) : listing.got[i].st = "rejected")
       => /\ listing.st = "failed"
          /\ lastRead.name = "list"
          /\ lastRead.outcome = "failed"
          /\ lastRead.error = <<listing.got[FirstRejected(listing)].err>>
          /\ lastRead.result = <<>>

\* Two fetches rejected with different errors, the second key's first, and
\* the call failed with the second key's error.
C18_Witness ==
  /\ listing.st = "failed"
  /\ Len(listing.keys) = 2
  /\ listing.order = <<2, 1>>
  /\ listing.got[1].st = "rejected"
  /\ listing.got[2].st = "rejected"
  /\ listing.got[1].err # listing.got[2].err
  /\ lastRead.outcome = "failed"
  /\ lastRead.error = <<listing.got[2].err>>

\* C19: KV.get(id) resolves with null, and does not throw, when the store
\* has no entry for id; when it has one, it resolves with the record the
\* entry's text denotes.
C19_GetNullWhenAbsent ==
  lastRead.name = "get" /\ ~StoreRejected(lastRead)
    => /\ lastRead.outcome = "ok"
       /\ lastRead.error = <<>>
       /\ lastRead.seen = <<>> => lastRead.result = Null
       /\ lastRead.seen # <<>>
            => /\ lastRead.result # Null
               /\ lastRead.result.id = lastRead.id
               /\ lastRead.result.prompt \in Bodies
               /\ lastRead.result.version \in 1..MaxVersion
               /\ JSONStringify(lastRead.result) = lastRead.seen[1]

\* A get of an id the relay had deleted resolved with null while the other
\* id was stored.
C19_Witness ==
  /\ lastRead.name = "get"
  /\ lastRead.outcome = "ok"
  /\ lastRead.seen = <<>>
  /\ lastRead.result = Null
  /\ lastRead.id \in DOMAIN store0
  /\ DOMAIN store # {}

\* C20: KV.render(id, ctx) throws the error naming id whenever the store
\* has no entry for id, whatever ctx is, and returns no string.
C20_RenderMissingFails ==
  lastRead.name = "render" /\ ~StoreRejected(lastRead) /\ lastRead.seen = <<>>
    => /\ lastRead.outcome = "TemplateNotFoundError"
       /\ lastRead.error = <<"Prompt '", lastRead.id, "' not found">>
       /\ lastRead.result = <<>>

\* A render of a missing id with a context that has a name threw, while the
\* other id was stored.
C20_Witness ==
  /\ lastRead.name = "render"
  /\ lastRead.id = "b"
  /\ lastRead.ctx = Context(Str("World"), Undefined)
  /\ lastRead.seen = <<>>
  /\ lastRead.outcome = "TemplateNotFoundError"
  /\ lastRead.error = <<"Prompt '", "b", "' not found">>
  /\ "a" \in DOMAIN store

\* The body of the entry a call found in the store.
SeenBody(r) == JSONParse(r.seen[1]).prompt

\* The text, in pieces, that each template gives with each context:
\* 'Hello {{name}}!' and 'Items: {{#items}}{{name}}, {{/items}}' against
\* {}, {name: 'World'}, {name: 'A&B'} and {items: [{name: 'Item 1'},
\* {name: 'Item 2'}]}.
Rendered(body, ctx) ==
  IF body = "p"
  THEN (IF ctx.name = Str("World") THEN <<"Hello ", "World", "!">>
        ELSE IF ctx.name = Str("A&B") THEN <<"Hello ", "A&amp;B", "!">>
        ELSE <<"Hello ", "!">>)
  ELSE (IF ctx.items.kind = "list"
        THEN <<"Items: ", "Item 1", ", ", "Item 2", ", ">>
        ELSE <<"Items: ">>)

\* C21: when the store has an entry for id, KV.render(id, ctx) returns the
\* mustache interpolation of the entry's body against ctx: a placeholder
\* gives the (escaped) context value, or nothing when the context has none,
\* and a section over a list gives its content once per element, in order.
C21_RenderInterpolates ==
  lastRead.name = "render" /\ ~StoreRejected(lastRead) /\ lastRead.seen # <<>>
    => /\ lastRead.outcome = "ok"
       /\ lastRead.error = <<>>
       /\ lastRead.result = Rendered(SeenBody(lastRead), lastRead.ctx)

\* The section template stored under an id was rendered with two items.
C21_Witness ==
  /\ lastRead.name = "render"
  /\ lastRead.outcome = "ok"
  /\ lastRead.seen # <<>>
  /\ SeenBody(lastRead) = "q"
  /\ lastRead.ctx.items.kind = "list"
  /\ lastRead.result = <<"Items: ", "Item 1", ", ", "Item 2", ", ">>

\* Two completed renders that found an entry.
BothRendered ==
  /\ prevRead.name = "render" /\ prevRead.seen # <<>>
  /\ lastRead.name = "render" /\ lastRead.seen # <<>>

InFlight == {queue[i] : i \in 1..Len(queue)} \cup {batch[i] : i \in 1..Len(batch)}

\* C23: every notification is one of the two variants: an update built by
\* UpdateMessage has exactly id, prompt, version and type, the first three
\* being those of the registry's record it was built from and type being
\* 'prompt-update'; a delete built by DeleteMessage has exactly id and
\* type, type being 'prompt-delete'.
C23_MessageVariants ==
  \A m \in InFlight :
    /\ m.type \in {"prompt-update", "prompt-delete"}
    /\ m.type = "prompt-update"
         => /\ DOMAIN m = {"id", "prompt", "version", "type"}
            /\ m.id \in Ids
            /\ m.version \in 1..Len(versions[m.id])
            /\ m.prompt = versions[m.id][m.version]
    /\ m.type = "prompt-delete"
         => /\ DOMAIN m = {"id", "type"}
            /\ m.id \in Ids
            /\ versions[m.id] # <<>>

\* The update for the second version of an id and a delete are queued.
C23_Witness ==
  /\ \E i \in 1..Len(queue) :
       /\ queue[i].type = "prompt-update"
       /\ queue[i].version = 2
       /\ queue[i].prompt = versions[queue[i].id][2]
  /\ \E j \in 1..Len(queue) :
       /\ queue[j].type = "prompt-delete"
       /\ DOMAIN queue[j] = {"id", "type"}

(* ---------------- further properties of the Update Relay --------------- *)

\* The entry the store held for a key when the running call started.
Entry0(k) == IF k \in DOMAIN store0 THEN <<store0[k]>> ELSE <<>>

\* The ids of the messages whose store operation has completed.
Applied == {batch[kvlog[i].msg].id : i \in {j \in 1..Len(kvlog) : kvlog[j].state = "done"}}

\* C24: every store operation HandleUpdates issues has the id of the
\* message being processed as its key, and every entry whose key is not
\* the id of a message of the batch (indeed, of a message already applied)
\* is as it was when the call started.
C24_OtherKeysUntouched ==
  /\ \A i \in 1..Len(kvlog) :
       /\ kvlog[i].msg \in 1..Len(batch)
       /\ kvlog[i].key = batch[kvlog[i].msg].id
  /\ \A k \in DOMAIN store \cup DOMAIN store0 :
       k \notin Applied => Entry(k) = Entry0(k)
  /\ \A k \in DOMAIN store \cup DOMAIN store0 :
       k \notin {batch[i].id : i \in 1..Len(batch)} => Entry(k) = Entry0(k)

\* A batch of two messages for one id has changed that id's entry and left
\* the entry of the other id, stored by an earlier batch, as it was.
C24_Witness ==
  /\ relay = "resolved"
  /\ Len(batch) = 2
  /\ \A i \in 1..Len(batch) : batch[i].id = "a"
  /\ "b" \in DOMAIN store0
  /\ Entry("b") = Entry0("b")
  /\ Entry("a") # Entry0("a")
  /\ Len(kvlog) = 2

\* C25: redelivery is idempotent: when HandleUpdates has processed a batch
\* and then processes the same batch again, the store after the second call
\* is the store after the first.
C25_RedeliveryIdempotent ==
  relay = "resolved" /\ redelivered => store = store0

\* A two-message batch that changes a store left non-empty by an earlier
\* batch has been processed a second time: a put followed by a delete of
\* another id, both applied again.
C25_Witness ==
  /\ relay = "resolved"
  /\ redelivered
  /\ delivered = MaxDeliveries + 1
  /\ Len(batch) = 2
  /\ batch[1].type = "prompt-update"
  /\ batch[2].type = "prompt-delete"
  /\ batch[1].id # batch[2].id
  /\ Len(kvlog) = 2
  /\ \A i \in 1..Len(kvlog) : kvlog[i].state = "done"
  /\ store = store0
  /\ DOMAIN store = {batch[1].id}

\* The messages the loop has reached: those before pos, and the one at pos
\* once its store operation is issued.
Reached ==
  {k \in 1..Len(batch) : k < pos \/ (k = pos /\ relay \in {"awaiting", "rejected"})}

\* The store operations completed for a key after the i-th of the log.
LaterDone(i) ==
  {j \in (i + 1)..Len(kvlog) : kvlog[j].key = kvlog[i].key /\ kvlog[j].state = "done"}

\* C26: an Update message is applied unconditionally: for every update the
\* loop has reached a put of its payload is issued whatever the store held,
\* and once the put is done and no later operation for the id is, the
\* stored version is the message's version, be it lower than the version
\* stored before the call.
C26_PutUnconditional ==
  /\ \A k \in Reached :
       batch[k].type = "prompt-update" =>
         \E i \in 1..Len(kvlog) :
           /\ kvlog[i].msg = k
           /\ kvlog[i].op = "put"
           /\ kvlog[i].key = batch[k].id
           /\ kvlog[i].value = PutValue(batch[k])
  /\ \A i \in 1..Len(kvlog) :
       kvlog[i].op = "put" /\ kvlog[i].state = "done" /\ LaterDone(i) = {} =>
         /\ kvlog[i].key \in DOMAIN store
         /\ JSONParse(store[kvlog[i].key]).version = batch[kvlog[i].msg].version

\* The store held version 2 of "a" when the call started, the batch was one
\* update carrying version 1, and the store now holds version 1.
C26_Witness ==
  /\ relay = "resolved"
  /\ Len(batch) = 1
  /\ batch[1].type = "prompt-update"
  /\ batch[1].id = "a"
  /\ batch[1].version = 1
  /\ "a" \in DOMAIN store0
  /\ JSONParse(store0["a"]).version = 2
  /\ "a" \in DOMAIN store
  /\ JSONParse(store["a"]).version = 1

(* ------------- the KV reader and the Update Relay together ------------- *)

\* The places of the list call in flight whose fetch completes in this step.
Fetching ==
  {i \in 1..Len(listing.got) :
     /\ listing.st = "fetching"
     /\ listing.got[i].st = "pending"
     /\ Len(listing'.got) = Len(listing.got)
     /\ listing'.got[i].st = "resolved"}

\* The places of the list call in flight whose fetch had completed before.
Fetched ==
  {i \in 1..Len(listing.got) :
     /\ listing.st = "fetching"
     /\ listing'.st = "fetching"
     /\ listing.got[i].st = "resolved"}

\* A fetch that completes in this step gives what the store holds now, and
\* the values fetched before stay.
FetchReadsStore ==
  /\ \A i \in Fetching :
       /\ listing'.got[i].value = KVGet(listing.keys[i])
       /\ listing.keys[i] \notin DOMAIN store => listing'.got[i].value = Null
       /\ listing'.st = "fetching"
       /\ listing'.keys = listing.keys
       /\ store' = store
  /\ \A i \in Fetched : listing'.got[i] = listing.got[i]

\* C27: KV.list interleaved with HandleUpdates: each per-key fetch resolves
\* with what the store holds for the key at the moment the fetch runs, null
\* for a key deleted since the enumeration, without failing the call and
\* without changing the store, and the value stays as fetched; the list
\* returned leaves out the keys whose fetch gave null, has no null element,
\* and every record in it is the fetched value of its key.
C27_ListSkipsDeletedKey ==
  /\ [](ListReturned(lastRead)
         => /\ \A j \in 1..Len(lastRead.result) :
                 /\ lastRead.result[j] # Null
                 /\ \E i \in 1..Len(lastRead.keys) :
                      /\ lastRead.keys[i] = lastRead.result[j].id
                      /\ lastRead.fetched[i].value = lastRead.result[j]
            /\ \A i \in 1..Len(lastRead.keys) :
                 lastRead.fetched[i].value = Null
                   => \A j \in 1..Len(lastRead.result) :
                        lastRead.result[j].id # lastRead.keys[i])
  /\ [][FetchReadsStore]_vars

\* "a" and "b" were enumerated, the relay's delete of "a" was applied before
\* the fetch of "a" ran, and the list returned is the record of "b" alone.
C27_Witness ==
  /\ ListReturned(lastRead)
  /\ lastRead.keys = <<"a", "b">>
  /\ lastRead.fetched[1].value = Null
  /\ Len(lastRead.result) = 1
  /\ lastRead.result[1].id = "b"
  /\ batch = <<DeleteMessage("a")>>
  /\ "a" \in DOMAIN store0
  /\ "a" \notin DOMAIN store
  /\ \E i \in 1..Len(kvlog) : kvlog[i].op = "delete" /\ kvlog[i].state = "done"

\* The messages of the batch that are the last applied for id: an update
\* whose put is done, with no later operation for id done.
LastApplied(id) ==
  {kvlog[i].msg : i \in {j \in 1..Len(kvlog) :
                           /\ kvlog[j].key = id
                           /\ kvlog[j].op = "put"
                           /\ kvlog[j].state = "done"
                           /\ LaterDone(j) = {}}}

\* This step is a KV.get or KV.render that the store answered.
ReadStep ==
  /\ UNCHANGED relayVars
  /\ listing' = NoListing
  /\ lastRead'.name \in {"get", "render"}
  /\ ~StoreRejected(lastRead')

\* A read of an id after the update of a record r was applied gives r.
ReadsApplied ==
  ReadStep =>
    \A k \in LastApplied(lastRead'.id) :
      \E r \in Prompts :
        /\ batch[k] = UpdateMessage(r)
        /\ lastRead'.outcome = "ok"
        /\ lastRead'.name = "get"
             => /\ DOMAIN lastRead'.result = {"id", "prompt", "version", "type"}
                /\ lastRead'.result.id = r.id
                /\ lastRead'.result.prompt = r.prompt
                /\ lastRead'.result.version = r.version
                /\ lastRead'.result.type = "prompt-update"
        /\ lastRead'.name = "render"
             => lastRead'.result = Rendered(r.prompt, lastRead'.ctx)

\* C28: round trip from the relay to the reader: once HandleUpdates has
\* applied UpdateMessage(r) and no later message for r.id, the store holds
\* the stringified message under r.id, KV.get(r.id) returns a record with
\* r's id, body and version and the tag 'prompt-update' besides, and
\* KV.render(r.id, ctx) returns r's body rendered against ctx.
C28_RelayReaderRoundTrip ==
  /\ [](\A id \in Ids : \A k \in LastApplied(id) :
          /\ batch[k].id = id
          /\ Entry(id) = <<JSONStringify(batch[k])>>)
  /\ [][ReadsApplied]_vars

\* The one batch delivered was the update of version 2 of "a" with the
\* section template; the render of "a" that followed saw the entry it put
\* and gave the template's text for two items.
C28_Witness ==
  /\ delivered = 1
  /\ relay = "resolved"
  /\ batch = <<UpdateMessage([id |-> "a", prompt |-> "q", version |-> 2])>>
  /\ LastApplied("a") = {1}
  /\ lastRead.name = "render"
  /\ lastRead.id = "a"
  /\ lastRead.seen = <<JSONStringify(batch[1])>>
  /\ lastRead.ctx.items.kind = "list"
  /\ lastRead.result = <<"Items: ", "Item 1", ", ", "Item 2", ", ">>

(* ------------------ further properties of the HTTP client -------------- *)

\* C29: a client constructed with the empty string has the string as its
\* base URL and no binding, and every operation called on it throws the
\* initialization error without sending a request on any transport.
C29_EmptyBaseUrlUninitialized ==
  http.baseUrl = ""
    => /\ http = HTTPConstructor([kind |-> "string", value |-> ""])
       /\ http.binding = "undefined"
       /\ lastOp.sdk = "HTTP"
            => /\ lastOp.outcome = "InitializationError"
               /\ lastOp.error = InitializationError
               /\ lastOp.reqs = <<>>
               /\ lastOp.result = <<>>

\* A listPrompts on a client constructed with '' threw the initialization
\* error and sent nothing.
C29_Witness ==
  /\ http.baseUrl = ""
  /\ http.binding = "undefined"
  /\ lastOp.sdk = "HTTP"
  /\ lastOp.name = "listPrompts"
  /\ lastOp.outcome = "InitializationError"
  /\ lastOp.reqs = <<>>

\* The messages of the batch whose tag the switch has no case for.
Untagged ==
  {k \in 1..Len(batch) : batch[k].type \notin {"prompt-update", "prompt-delete"}}

\* C30: a message whose tag is neither 'prompt-update' nor 'prompt-delete'
\* causes no store operation and no error: the loop never waits or rejects
\* at it, the messages after it get their store operation, and a batch of
\* such messages alone resolves with the store as it was.
C30_OtherTagPassedOver ==
  /\ \A i \in 1..Len(kvlog) : kvlog[i].msg \notin Untagged
  /\ relay \in {"awaiting", "rejected"} => pos \notin Untagged
  /\ \A k \in Reached \ Untagged : \E i \in 1..Len(kvlog) : kvlog[i].msg = k
  /\ relay = "resolved" => pos = Len(batch) + 1
  /\ Untagged = 1..Len(batch) => store = store0 /\ relay # "rejected"

\* A batch of a message with another tag and then an update resolved: the
\* one store operation is the put of the second message, and it is applied.
C30_Witness ==
  /\ relay = "resolved"
  /\ Len(batch) = 2
  /\ batch[1] = UntaggedMessage("a")
  /\ batch[2].type = "prompt-update"
  /\ batch[2].id = "a"
  /\ Len(kvlog) = 1
  /\ kvlog[1].msg = 2
  /\ kvlog[1].state = "done"
  /\ Entry("a") = <<PutValue(batch[2])>>

====
